---- MODULE Spec2Model ----
(***************************************************************************)
(* pg_check_conn: one run of main() in pg_check_conn.cpp.                  *)
(*                                                                         *)
(* A std::string is a sequence of characters, each character a one-letter  *)
(* TLA+ string; positions are 0-based as in the source.  argv holds the    *)
(* arguments after the program name, so that argv[index] is the source's   *)
(* argv[index] for index >= 1 and argc = Len(argv) + 1.                    *)
(***************************************************************************)
EXTENDS Integers, Sequences, FiniteSets, TLC

\* Largest number of command-line arguments a run is started with.
MaxArgs == 2

-----------------------------------------------------------------------------
(* Token utilities                                                         *)

\* " \t\n\r\f\v"; "\\v" stands for the vertical tab.
whitespace == {" ", "\t", "\n", "\r", "\f", "\\v"}

\* std::string::npos
npos == -1

\* The terminating NUL a C string shows at its length.
NUL == ""

\* argv[i][k]: the k-th character of a C string, NUL at its end.
charAt(str, k) == IF k < Len(str) THEN str[k + 1] ELSE NUL

find_first_not_of(str) ==
    IF \E i \in 1..Len(str) : str[i] \notin whitespace
    THEN (CHOOSE i \in 1..Len(str) :
              /\ str[i] \notin whitespace
              /\ \A j \in 1..(i - 1) : str[j] \in whitespace) - 1
    ELSE npos

find_last_not_of(str) ==
    IF \E i \in 1..Len(str) : str[i] \notin whitespace
    THEN (CHOOSE i \in 1..Len(str) :
              /\ str[i] \notin whitespace
              /\ \A j \in (i + 1)..Len(str) : str[j] \in whitespace) - 1
    ELSE npos

\* str.find(ch, 0)
find(str, ch) ==
    IF \E i \in 1..Len(str) : str[i] = ch
    THEN (CHOOSE i \in 1..Len(str) :
              /\ str[i] = ch
              /\ \A j \in 1..(i - 1) : str[j] # ch) - 1
    ELSE npos

\* str.erase(pos, n): drops min(n, size - pos) characters from pos on.
erase(str, pos, n) ==
    LET cnt == IF n = npos \/ n > Len(str) - pos THEN Len(str) - pos ELSE n
    IN  SubSeq(str, 1, pos) \o SubSeq(str, pos + cnt + 1, Len(str))

\* str.substr(pos, n), for pos <= size.
substr(str, pos, n) ==
    LET cnt == IF n = npos \/ n > Len(str) - pos THEN Len(str) - pos ELSE n
    IN  SubSeq(str, pos + 1, pos + cnt)

ltrim(str) == erase(str, 0, find_first_not_of(str))

rtrim_keep(str) == str

rtrim(str) ==
    LET pos == find_last_not_of(str)
    IN  IF pos # npos THEN erase(str, pos + 1, npos) ELSE <<>>

trim(str) == ltrim(rtrim(str))

is_empty(arg) == Len(arg) = 0

-----------------------------------------------------------------------------
(* Exceptions and the two value parsers                                    *)

NoExc == [type |-> "none", what |-> ""]

Return(a) == [thrown |-> FALSE, value |-> a, exc |-> NoExc]

Throw(type, msg) ==
    [thrown |-> TRUE, value |-> <<>>, exc |-> [type |-> type, what |-> msg]]

parse_next_arg_any(argc, argv, index, errMsg) ==
    IF index + 1 < argc
    THEN LET a == trim(argv[index + 1])
         IN  IF ~is_empty(a) THEN Return(a)
             ELSE Throw("std::out_of_range", errMsg)
    ELSE Throw("std::out_of_range", errMsg)

parse_next_arg(argc, argv, index, errMsg) ==
    IF index + 1 < argc /\ charAt(argv[index + 1], 0) # "-"
    THEN LET a == trim(argv[index + 1])
         IN  IF ~is_empty(a) THEN Return(a)
             ELSE Throw("std::out_of_range", errMsg)
    ELSE Throw("std::out_of_range", errMsg)

parse_equal_arg_notrim(arg, errMsg) ==
    LET pos == find(arg, "=")
    IN  IF pos # npos /\ pos < Len(arg)
        THEN LET a == substr(arg, pos + 1, npos)
             IN  IF ~is_empty(trim(a)) THEN Return(a)
                 ELSE Throw("std::runtime_error", errMsg)
        ELSE Throw("std::runtime_error", errMsg)

parse_equal_arg_blank(arg, errMsg) ==
    LET pos == find(arg, "=")
    IN  IF pos # npos /\ pos < Len(arg)
        THEN Return(trim(substr(arg, pos + 1, npos)))
        ELSE Throw("std::runtime_error", errMsg)

parse_equal_arg(arg, errMsg) ==
    LET pos == find(arg, "=")
    IN  IF pos # npos /\ pos < Len(arg)
        THEN LET a == trim(substr(arg, pos + 1, npos))
             IN  IF ~is_empty(a) THEN Return(a)
                 ELSE Throw("std::runtime_error", errMsg)
        ELSE Throw("std::runtime_error", errMsg)

-----------------------------------------------------------------------------
(* Option names                                                            *)

opt_d == <<"-", "d">>
opt_U == <<"-", "U">>
opt_h == <<"-", "h">>
opt_p == <<"-", "p">>
opt_t == <<"-", "t">>
opt_dbname   == <<"-", "-", "d", "b", "n", "a", "m", "e">>
opt_username == <<"-", "-", "u", "s", "e", "r", "n", "a", "m", "e">>
opt_hostname == <<"-", "-", "h", "o", "s", "t", "n", "a", "m", "e">>
opt_hostaddr == <<"-", "-", "h", "o", "s", "t", "a", "d", "d", "r">>
opt_port     == <<"-", "-", "p", "o", "r", "t">>
opt_timeout  == <<"-", "-", "t", "i", "m", "e", "o", "u", "t">>

FieldNames == {"database", "username", "host", "hostaddr", "port", "timeout"}

\* std::string database, username, host, hostaddr, port, timeout;
EmptyFields == [f \in FieldNames |-> <<>>]

-----------------------------------------------------------------------------
(* One iteration of the argument loop                                      *)

\* field = parse_...(...) [, index++]: the assignment happens only when the
\* parser returned; a throw leaves every field and the cursor as they were.
Store(fields, index, field, r, consumed) ==
    IF r.thrown
    THEN [fields |-> fields, index |-> index, exc |-> r.exc, target |-> "none"]
    ELSE [fields |-> [fields EXCEPT ![field] = r.value],
          index |-> index + consumed, exc |-> NoExc, target |-> field]

Ignore_throw(fields, index) ==
    [fields |-> fields, index |-> index,
     exc |-> [type |-> "std::runtime_error", what |-> "unknown option"],
     target |-> "none"]

\* No branch of the if-chain matched: nothing happens.
Ignore(fields, index) ==
    [fields |-> fields, index |-> index, exc |-> NoExc, target |-> "none"]

\* The if / else-if chain: the state after the body, before the loop's ++index.
LoopBody(argc, argv, index, fields) ==
    LET opt == argv[index]
    IN  IF opt = opt_d
        THEN Store(fields, index, "database",
                   parse_next_arg(argc, argv, index, "missing database argument"), 1)
        ELSE IF substr(opt, 0, 8) = opt_dbname
        THEN Store(fields, index, "database",
                   parse_equal_arg(opt, "missing database argument"), 0)
        ELSE IF opt = opt_U
        THEN Store(fields, index, "username",
                   parse_next_arg(argc, argv, index, "missing username argument"), 1)
        ELSE IF substr(opt, 0, 10) = opt_username
        THEN Store(fields, index, "username",
                   parse_equal_arg(opt, "missing username argument"), 0)
        ELSE IF opt = opt_h
        THEN Store(fields, index, "host",
                   parse_next_arg(argc, argv, index, "missing hostname argument"), 1)
        ELSE IF substr(opt, 0, 10) = opt_hostname
        THEN Store(fields, index, "host",
                   parse_equal_arg(opt, "missing hostname argument"), 0)
        ELSE IF substr(opt, 0, 10) = opt_hostaddr
        THEN Store(fields, index, "hostaddr",
                   parse_equal_arg(opt, "missing hostaddr argument"), 0)
        ELSE IF opt = opt_p
        THEN Store(fields, index, "port",
                   parse_next_arg(argc, argv, index, "missing port argument"), 1)
        ELSE IF substr(opt, 0, 6) = opt_port
        THEN Store(fields, index, "port",
                   parse_equal_arg(opt, "missing port argument"), 0)
        ELSE IF opt = opt_t
        THEN Store(fields, index, "timeout",
                   parse_next_arg(argc, argv, index, "missing timeout argument"), 1)
        ELSE IF substr(opt, 0, 9) = opt_timeout
        THEN Store(fields, index, "timeout",
                   parse_equal_arg(opt, "missing timeout argument"), 0)
        ELSE Ignore(fields, index)

\* The whole loop from a cursor position on: the fields when it ends, or the
\* exception that ended it.
RECURSIVE ParseLoop(_, _, _)
ParseLoop(argv, index, fields) ==
    IF index < Len(argv) + 1
    THEN LET b == LoopBody(Len(argv) + 1, argv, index, fields)
         IN  IF b.exc # NoExc THEN [fields |-> b.fields, exc |-> b.exc]
             ELSE ParseLoop(argv, b.index + 1, b.fields)
    ELSE [fields |-> fields, exc |-> NoExc]

-----------------------------------------------------------------------------
(* Connection string                                                       *)

key_dbname   == <<"d", "b", "n", "a", "m", "e", "=">>
key_user     == <<"u", "s", "e", "r", "=">>
key_hostaddr == <<"h", "o", "s", "t", "a", "d", "d", "r", "=">>
key_host     == <<"h", "o", "s", "t", "=">>
key_port     == <<"p", "o", "r", "t", "=">>
key_timeout  == <<"c", "o", "n", "n", "e", "c", "t", "_",
                  "t", "i", "m", "e", "o", "u", "t", "=">>

\* if (! is_empty(v)) connstr << key << v << " ";
Emit(key, v) == IF ~is_empty(v) THEN key \o v \o <<" ">> ELSE <<>>

BuildConnStr_hostFirst(fields) ==
    Emit(key_dbname, fields["database"]) \o Emit(key_user, fields["username"])
        \o Emit(key_host, fields["host"]) \o Emit(key_hostaddr, fields["hostaddr"])
        \o Emit(key_port, fields["port"]) \o Emit(key_timeout, fields["timeout"])

BuildConnStr(fields) ==
    Emit(key_dbname, fields["database"]) \o Emit(key_user, fields["username"])
        \o Emit(key_hostaddr, fields["hostaddr"]) \o Emit(key_host, fields["host"])
        \o Emit(key_port, fields["port"]) \o Emit(key_timeout, fields["timeout"])

-----------------------------------------------------------------------------
(* The client library, as main() uses it                                   *)

\* ConnStatusType: what PQstatus reports after the synchronous PQconnectdb.
CONNECTION_OK == 0
CONNECTION_BAD == 1

\* PGconn *conn: NULL, or a handle with the status the library keeps in it.
NULL == [null |-> TRUE, status |-> CONNECTION_BAD]
Handle(s) == [null |-> FALSE, status |-> s]

\* PQconnectdb returns NULL (no memory for the handle) or a handle, good or bad.
ConnResults == {NULL, Handle(CONNECTION_OK), Handle(CONNECTION_BAD)}

\* PQerrorMessage(conn): the library's text, taken verbatim.
LibMsgs == {"connection pointer is NULL", "password authentication failed"}

PQstatus(c) == c.status

\* One call of the library, with the handle it returned or was given.
Call(fn, c) == [fn |-> fn, conn |-> c]

-----------------------------------------------------------------------------
(* Inputs: the argument vectors and environments the runs start from       *)

Values == { <<"a">>, <<"b">>, <<" ", "a", "\t">>, <<"-", "a">>, <<>>, <<" ">> }

ShortOpts == {opt_d, opt_U, opt_h, opt_p, opt_t}

LongOpts == {opt_dbname, opt_username, opt_hostname, opt_hostaddr, opt_port,
             opt_timeout}

Tokens ==
    ShortOpts \cup Values \cup LongOpts
        \cup {l \o <<"=", "b">> : l \in LongOpts}
        \cup {opt_dbname \o <<"=">> \o v : v \in Values}
        \cup {opt_dbname \o <<"f", "o", "o", "=", "c">>,
              opt_port \o <<"=", "a", "=", "b">>,
              <<"-", "-", "b", "o", "g", "u", "s">>}

ArgVectors == UNION {[1..n -> Tokens] : n \in 0..MaxArgs}

\* getenv("PGDEBUG"): unset, or set to a string.
Unset == [set |-> FALSE, value |-> <<>>]
EnvValue(v) == [set |-> TRUE, value |-> v]
Environments ==
    {Unset, EnvValue(<<>>), EnvValue(<<"1">>), EnvValue(<<"0">>),
     EnvValue(<<"1", "0">>)}

-----------------------------------------------------------------------------
(* State                                                                   *)

VARIABLES
    argv,      \* the arguments after the program name
    PGDEBUG,   \* the environment variable PGDEBUG
    pc,        \* where main() is
    index,     \* the loop's cursor
    fields,    \* database, username, host, hostaddr, port, timeout
    assigned,  \* the fields an assignment statement has written
    connstr,   \* connstr.str()
    conn,      \* PGconn *conn
    ret,       \* int ret
    exc,       \* the exception thrown in this run, NoExc if none
    stdout,    \* lines written to std::cout
    stderr,    \* lines written to std::cerr
    calls      \* the client-library calls made, in order, each with the
               \* handle it returned or was given

vars == <<argv, PGDEBUG, pc, index, fields, assigned, connstr, conn, ret, exc,
          stdout, stderr, calls>>

argc == Len(argv) + 1

\* One output line: its prefix, then an exception text or a connection string.
Line(prefix, what, str) == [prefix |-> prefix, what |-> what, str |-> str]

Init ==
    /\ argv \in ArgVectors
    /\ PGDEBUG \in Environments
    /\ pc = "loop"
    /\ index = 1
    /\ fields = EmptyFields
    /\ assigned = {}
    /\ connstr = <<>>
    /\ conn = NULL
    /\ ret = 0
    /\ exc = NoExc
    /\ stdout = <<>>
    /\ stderr = <<>>
    /\ calls = <<>>

-----------------------------------------------------------------------------
(* Steps of main()                                                         *)

LoopIteration_continue ==
    /\ pc = "loop"
    /\ index < argc
    /\ LET b == LoopBody(argc, argv, index, fields)
       IN  /\ fields' = b.fields
           /\ assigned' = IF b.target # "none" THEN assigned \cup {b.target}
                          ELSE assigned
           /\ exc' = IF b.exc # NoExc THEN b.exc ELSE exc
           /\ pc' = "loop"
           /\ index' = b.index + 1
    /\ UNCHANGED <<argv, PGDEBUG, connstr, conn, ret, stdout, stderr, calls>>

\* One pass through the for loop's body and its ++index, or the throw that
\* leaves the loop for the handlers.
LoopIteration ==
    /\ pc = "loop"
    /\ index < argc
    /\ LET b == LoopBody(argc, argv, index, fields)
       IN  /\ fields' = b.fields
           /\ assigned' = IF b.target # "none" THEN assigned \cup {b.target}
                          ELSE assigned
           /\ IF b.exc # NoExc
              THEN /\ exc' = b.exc
                   /\ pc' = "catch"
                   /\ index' = index
              ELSE /\ exc' = exc
                   /\ pc' = "loop"
                   /\ index' = b.index + 1
    /\ UNCHANGED <<argv, PGDEBUG, connstr, conn, ret, stdout, stderr, calls>>

LoopExit ==
    /\ pc = "loop"
    /\ ~(index < argc)
    /\ pc' = "build"
    /\ UNCHANGED <<argv, PGDEBUG, index, fields, assigned, connstr, conn, ret,
                   exc, stdout, stderr, calls>>

Build ==
    /\ pc = "build"
    /\ connstr' = BuildConnStr(fields)
    /\ pc' = "debug"
    /\ UNCHANGED <<argv, PGDEBUG, index, fields, assigned, conn, ret, exc,
                   stdout, stderr, calls>>

DebugEnabled_exact(env) == env.set /\ env.value = <<"1">>

\* pgdebug && pgdebug[0] == '1'
DebugEnabled(env) == env.set /\ charAt(env.value, 0) = "1"

DebugLog ==
    /\ pc = "debug"
    /\ stdout' = IF DebugEnabled(PGDEBUG)
                 THEN Append(stdout, Line("Conn string: ", "", connstr))
                 ELSE stdout
    /\ pc' = "connect"
    /\ UNCHANGED <<argv, PGDEBUG, index, fields, assigned, connstr, conn, ret,
                   exc, stderr, calls>>

\* conn = PQconnectdb(connstr.str().c_str());
Connect ==
    /\ pc = "connect"
    /\ \E c \in ConnResults :
           /\ conn' = c
           /\ calls' = Append(calls, Call("PQconnectdb", c))
    /\ pc' = "check"
    /\ UNCHANGED <<argv, PGDEBUG, index, fields, assigned, connstr, ret, exc,
                   stdout, stderr>>

\* conn == NULL || PQstatus(conn) != CONNECTION_OK
Failed(c) == c.null \/ PQstatus(c) # CONNECTION_OK

\* The library calls the test makes: PQstatus only behind a non-NULL handle.
TestCalls(c) == IF c.null THEN <<>> ELSE <<Call("PQstatus", c)>>

\* The test after the connect call.  On failure the library's text is read
\* and thrown as a ConnException; building that text allocates, and an
\* allocation that fails throws std::bad_alloc instead.  Otherwise ret = 0.
CheckConn ==
    /\ pc = "check"
    /\ IF Failed(conn)
       THEN /\ calls' = calls \o TestCalls(conn) \o <<Call("PQerrorMessage", conn)>>
            /\ \/ \E msg \in LibMsgs :
                      exc' = [type |-> "ConnException", what |-> msg]
               \/ exc' = [type |-> "std::bad_alloc", what |-> "std::bad_alloc"]
            /\ pc' = "catch"
            /\ ret' = ret
       ELSE /\ calls' = calls \o TestCalls(conn)
            /\ ret' = 0
            /\ pc' = "cleanup"
            /\ exc' = exc
    /\ UNCHANGED <<argv, PGDEBUG, index, fields, assigned, connstr, conn,
                   stdout, stderr>>

ConnExitCode_minusOne(c) == -1

\* if (conn != NULL) ret = PQstatus(conn); else ret = -1;
ConnExitCode(c) == IF ~c.null THEN PQstatus(c) ELSE -1

\* catch (const ConnException& ex)
CatchConnException ==
    /\ pc = "catch"
    /\ exc.type = "ConnException"
    /\ stdout' = Append(stdout, Line("Error: ", exc.what, <<>>))
    /\ ret' = ConnExitCode(conn)
    /\ calls' = calls \o TestCalls(conn)
    /\ pc' = "cleanup"
    /\ UNCHANGED <<argv, PGDEBUG, index, fields, assigned, connstr, conn, exc,
                   stderr>>

\* catch (const std::exception& ex): every other exception type of the run.
CatchStdException ==
    /\ pc = "catch"
    /\ exc.type # "ConnException"
    /\ stderr' = Append(stderr, Line("Error: ", exc.what, <<>>))
    /\ ret' = -1
    /\ pc' = "cleanup"
    /\ UNCHANGED <<argv, PGDEBUG, index, fields, assigned, connstr, conn, exc,
                   stdout, calls>>

Cleanup_leak ==
    /\ pc = "cleanup"
    /\ pc' = "done"
    /\ UNCHANGED <<argv, PGDEBUG, index, fields, assigned, connstr, conn, ret,
                   exc, stdout, stderr, calls>>

\* if (conn != NULL) PQfinish(conn), conn = NULL;  return ret;
Cleanup ==
    /\ pc = "cleanup"
    /\ IF ~conn.null
       THEN /\ calls' = Append(calls, Call("PQfinish", conn))
            /\ conn' = NULL
       ELSE /\ calls' = calls
            /\ conn' = conn
    /\ pc' = "done"
    /\ UNCHANGED <<argv, PGDEBUG, index, fields, assigned, connstr, ret, exc,
                   stdout, stderr>>

Next ==
    \/ LoopIteration
    \/ LoopExit
    \/ Build
    \/ DebugLog
    \/ Connect
    \/ CheckConn
    \/ CatchConnException
    \/ CatchStdException
    \/ Cleanup

Spec == Init /\ [][Next]_vars

-----------------------------------------------------------------------------
(* Reference notions the properties are stated with                        *)

RECURSIVE StripLeft(_)
StripLeft(s) ==
    IF s # <<>> /\ Head(s) \in whitespace THEN StripLeft(Tail(s)) ELSE s

RECURSIVE StripRight(_)
StripRight(s) ==
    IF s # <<>> /\ s[Len(s)] \in whitespace
    THEN StripRight(SubSeq(s, 1, Len(s) - 1))
    ELSE s

\* s without its leading and trailing whitespace.
Stripped(s) == StripRight(StripLeft(s))

IsPrefix(p, s) == Len(p) <= Len(s) /\ SubSeq(s, 1, Len(p)) = p

BeginsWithDash(s) == IsPrefix(<<"-">>, s)

HasEq(s) == \E i \in 1..Len(s) : s[i] = "="

\* The text after the first '=' of s.
RECURSIVE AfterFirstEq(_)
AfterFirstEq(s) ==
    IF s = <<>> THEN <<>>
    ELSE IF Head(s) = "=" THEN Tail(s)
    ELSE AfterFirstEq(Tail(s))

\* The option table: short form, long form, field, message of a missing value.
ShortForms ==
    { [opt |-> opt_d, long |-> opt_dbname, field |-> "database",
       msg |-> "missing database argument"],
      [opt |-> opt_U, long |-> opt_username, field |-> "username",
       msg |-> "missing username argument"],
      [opt |-> opt_h, long |-> opt_hostname, field |-> "host",
       msg |-> "missing hostname argument"],
      [opt |-> opt_p, long |-> opt_port, field |-> "port",
       msg |-> "missing port argument"],
      [opt |-> opt_t, long |-> opt_timeout, field |-> "timeout",
       msg |-> "missing timeout argument"] }

LongForms ==
    { [opt |-> opt_dbname, field |-> "database",
       msg |-> "missing database argument"],
      [opt |-> opt_username, field |-> "username",
       msg |-> "missing username argument"],
      [opt |-> opt_hostname, field |-> "host",
       msg |-> "missing hostname argument"],
      [opt |-> opt_hostaddr, field |-> "hostaddr",
       msg |-> "missing hostaddr argument"],
      [opt |-> opt_port, field |-> "port",
       msg |-> "missing port argument"],
      [opt |-> opt_timeout, field |-> "timeout",
       msg |-> "missing timeout argument"] }

\* The exception types the two value parsers throw: a ParseError.
ParseErrorTypes == {"std::out_of_range", "std::runtime_error"}

ParseFailed == exc.type \in ParseErrorTypes

\* What parsing ended in: the fields, and the message when it failed.
ParseOutcome(fs, e) ==
    [fields |-> fs,
     failed |-> e.type \in ParseErrorTypes,
     what   |-> IF e.type \in ParseErrorTypes THEN e.what ELSE ""]

\* What parsing a whole argument list ends in.
PureOutcome(args) ==
    LET r == ParseLoop(args, 1, EmptyFields)
    IN  ParseOutcome(r.fields, r.exc)

LongEq(l, v) == l \o <<"=">> \o v

\* A run started with [short, v] or with [long=v] ends parsing as the other
\* list does.
SameAsOtherForm(o, v) ==
    /\ argv = <<o.opt, v>>
           => ParseOutcome(fields, exc) = PureOutcome(<<LongEq(o.long, v)>>)
    /\ argv = <<LongEq(o.long, v)>>
           => ParseOutcome(fields, exc) = PureOutcome(<<o.opt, v>>)

-----------------------------------------------------------------------------
(* C1 *)

\* C1, as claimed: for every field with a short and a long form and every
\* value v, parsing [short, v] and parsing [long=v] end in the same result.
C1_EveryValue ==
    pc # "loop" => \A o \in ShortForms, v \in Values : SameAsOtherForm(o, v)

\* C1, amended: for every field with a short and a long form and every value
\* v that does not begin with '-', parsing [short, v] and parsing [long=v]
\* end in the same result (the same fields, or the same missing-argument
\* error).
C1_ValueNotDashed ==
    pc # "loop" =>
        \A o \in ShortForms, v \in {w \in Values : ~BeginsWithDash(w)} :
            SameAsOtherForm(o, v)

\* -p with a value that needs trimming, stored as --port= would store it.
C1_Witness ==
    /\ pc = "build"
    /\ argv = <<opt_p, <<" ", "a", "\t">>>>
    /\ fields["port"] = <<"a">>
    /\ PureOutcome(<<LongEq(opt_port, <<" ", "a", "\t">>)>>).fields["port"] = <<"a">>

-----------------------------------------------------------------------------
(* C3 *)

AtOption == pc = "loop" /\ index < argc

\* The step the loop takes when a value is missing: the ParseError is
\* thrown, nothing is stored and the cursor stays.
Rejects(msg) ==
    /\ pc' = "catch"
    /\ exc'.type \in ParseErrorTypes
    /\ exc'.what = msg
    /\ fields' = fields
    /\ index' = index

\* The step the loop takes when a value is stored.
Stores(field, value, consumed) ==
    /\ pc' = "loop"
    /\ exc' = NoExc
    /\ fields' = [fields EXCEPT ![field] = value]
    /\ index' = index + consumed

C3_Step(o) ==
    LET hasNext == index + 1 <= Len(argv)
        next == argv[index + 1]
    IN  IF ~hasNext \/ BeginsWithDash(next) \/ Stripped(next) = <<>>
        THEN Rejects(o.msg)
        ELSE Stores(o.field, Stripped(next), 2)

\* C3: a short option at the cursor fails with "missing <name> argument"
\* when there is no next token, or the next token begins with '-', or it
\* trims to the empty string; otherwise the trimmed next token is stored in
\* the option's field and the cursor moves past both tokens.
C3_ShortOption ==
    [][\A o \in ShortForms : (AtOption /\ argv[index] = o.opt) => C3_Step(o)]_vars

\* -d followed by a token that begins with '-'.
C3_Witness ==
    /\ pc = "catch"
    /\ argv = <<opt_d, <<"-", "a">>>>
    /\ index = 1
    /\ exc = [type |-> "std::out_of_range", what |-> "missing database argument"]
    /\ fields = EmptyFields

-----------------------------------------------------------------------------
(* C4 *)

C4_Step(o) ==
    LET tok == argv[index]
    IN  IF ~HasEq(tok) \/ Stripped(AfterFirstEq(tok)) = <<>>
        THEN Rejects(o.msg)
        ELSE Stores(o.field, Stripped(AfterFirstEq(tok)), 1)

\* C4: a token at the cursor that begins with a long option name fails with
\* "missing <name> argument" when it holds no '=' or the text after its first
\* '=' trims to the empty string; otherwise the field is set to the trimmed
\* text after the first '=' and the cursor advances by exactly one token.
C4_LongOption ==
    [][\A o \in LongForms :
           (AtOption /\ IsPrefix(o.opt, argv[index])) => C4_Step(o)]_vars

\* --dbname= followed by a blank only.
C4_Witness ==
    /\ pc = "catch"
    /\ Len(argv) >= index
    /\ argv[index] = LongEq(opt_dbname, <<" ">>)
    /\ exc = [type |-> "std::runtime_error", what |-> "missing database argument"]

-----------------------------------------------------------------------------
(* C2 *)

CallsOf(fn) == SelectSeq(calls, LAMBDA c : c.fn = fn)

\* PQconnectdb handed out a handle in this run.
Acquired == \E i \in 1..Len(calls) : calls[i].fn = "PQconnectdb" /\ ~calls[i].conn.null

\* The connection attempt succeeded: the handle came back CONNECTION_OK.
Succeeded ==
    \E i \in 1..Len(calls) : calls[i] = Call("PQconnectdb", Handle(CONNECTION_OK))

ErrorLines(out) == SelectSeq(out, LAMBDA l : l.prefix = "Error: ")

ErrorLine == Line("Error: ", exc.what, <<>>)

Refused == exc.type = "ConnException"

Unexpected == exc.type = "std::bad_alloc"

\* C2: Success exits 0 with no "Error:" line; ConnectionRefused writes
\* "Error: <msg>" to stdout and exits with the library's status code when a
\* handle exists and -1 when none exists; UnexpectedFailure and ParseError
\* write "Error: <msg>" to stderr and exit -1.  So the exit code is 0 exactly
\* when the connection attempt succeeded, and every failing run emits a
\* message.
C2_ExitCodeAndChannel ==
    pc = "done" =>
        /\ Succeeded <=> ~(Refused \/ Unexpected \/ ParseFailed)
        /\ Succeeded =>
               /\ ret = 0
               /\ ErrorLines(stdout) = <<>>
               /\ stderr = <<>>
        /\ Refused =>
               /\ ErrorLines(stdout) = <<ErrorLine>>
               /\ stderr = <<>>
               /\ \A i \in 1..Len(calls) :
                      (calls[i].fn = "PQconnectdb" /\ ~calls[i].conn.null)
                          => ret = calls[i].conn.status
               /\ ~Acquired => ret = -1
        /\ (Unexpected \/ ParseFailed) =>
               /\ stderr = <<ErrorLine>>
               /\ ErrorLines(stdout) = <<>>
               /\ ret = -1
        /\ ret = 0 <=> Succeeded
        /\ ~Succeeded => ErrorLines(stdout) \o ErrorLines(stderr) # <<>>

\* A refused connection with a handle: the library's status is the exit code.
C2_Witness ==
    /\ pc = "done"
    /\ Refused
    /\ Acquired
    /\ ret = CONNECTION_BAD
    /\ ErrorLines(stdout) = <<ErrorLine>>

-----------------------------------------------------------------------------
(* C5 *)

-----------------------------------------------------------------------------
(* C6 *)

\* C6: on every exit path an acquired handle is released exactly once before
\* the process returns, after the last read of its status; when no handle
\* was acquired no release is performed.
C6_ReleasedOnce ==
    /\ Len(CallsOf("PQfinish")) <= 1
    /\ CallsOf("PQfinish") # <<>> =>
           /\ Acquired
           /\ calls[Len(calls)].fn = "PQfinish"
           /\ ~calls[Len(calls)].conn.null
           /\ Call("PQconnectdb", calls[Len(calls)].conn) = calls[1]
    /\ pc = "done" =>
           /\ Len(CallsOf("PQfinish")) = (IF Acquired THEN 1 ELSE 0)
           /\ conn = NULL

\* A refused connection: the status is read in the handler, then the handle
\* is released.
C6_Witness ==
    /\ pc = "done"
    /\ Refused
    /\ Len(calls) = 5
    /\ calls[4].fn = "PQstatus"
    /\ calls[5].fn = "PQfinish"

-----------------------------------------------------------------------------
(* C7 *)

\* C7: during and after parsing each of the six fields is either absent
\* (never assigned, and empty) or a non-empty string with no leading or
\* trailing whitespace, equal to its own trim.
C7_FieldsTrimmed ==
    \A f \in FieldNames :
        IF f \in assigned
        THEN /\ fields[f] # <<>>
             /\ Head(fields[f]) \notin whitespace
             /\ fields[f][Len(fields[f])] \notin whitespace
             /\ trim(fields[f]) = fields[f]
        ELSE fields[f] = <<>>

\* A repeated option whose last value needed trimming.
C7_Witness ==
    /\ pc = "build"
    /\ argv = <<LongEq(opt_dbname, <<"b">>), LongEq(opt_dbname, <<" ", "a", "\t">>)>>
    /\ fields["database"] = <<"a">>
    /\ assigned = {"database"}

-----------------------------------------------------------------------------
(* C8 *)

\* The keys in the order of emission, each with the field it renders.
RenderOrder ==
    << [key |-> <<"d", "b", "n", "a", "m", "e">>, field |-> "database"],
       [key |-> <<"u", "s", "e", "r">>, field |-> "username"],
       [key |-> <<"h", "o", "s", "t", "a", "d", "d", "r">>, field |-> "hostaddr"],
       [key |-> <<"h", "o", "s", "t">>, field |-> "host"],
       [key |-> <<"p", "o", "r", "t">>, field |-> "port"],
       [key |-> <<"c", "o", "n", "n", "e", "c", "t", "_",
                  "t", "i", "m", "e", "o", "u", "t">>, field |-> "timeout"] >>

\* 'key=value ' for the present fields among RenderOrder[i..], in that order.
RECURSIVE Rendered(_, _)
Rendered(fs, i) ==
    IF i > Len(RenderOrder) THEN <<>>
    ELSE (IF fs[RenderOrder[i].field] # <<>>
          THEN RenderOrder[i].key \o <<"=">> \o fs[RenderOrder[i].field] \o <<" ">>
          ELSE <<>>) \o Rendered(fs, i + 1)

\* C8: the builder output is the concatenation, in the order dbname, user,
\* hostaddr, host, port, connect_timeout, of 'key=value ' for exactly the
\* fields that are present; an empty specification renders the empty string.
C8_BuilderOutput ==
    pc \in {"debug", "connect", "check"} =>
        /\ connstr = Rendered(fields, 1)
        /\ fields = EmptyFields => connstr = <<>>

\* --hostname given before --hostaddr, rendered hostaddr first.
C8_Witness ==
    /\ pc = "debug"
    /\ argv = <<LongEq(opt_hostname, <<"b">>), LongEq(opt_hostaddr, <<"b">>)>>
    /\ connstr = <<"h", "o", "s", "t", "a", "d", "d", "r", "=", "b", " ",
                   "h", "o", "s", "t", "=", "b", " ">>

-----------------------------------------------------------------------------
(* C9 *)

Unrecognized(tok) ==
    /\ \A o \in ShortForms : tok # o.opt
    /\ \A o \in LongForms : ~IsPrefix(o.opt, tok)

RemoveAt(s, i) == SubSeq(s, 1, i - 1) \o SubSeq(s, i + 1, Len(s))

\* C9: a token at the cursor that is no short option and begins with no long
\* option name raises no error, leaves the six fields unchanged and advances
\* the cursor by exactly one token, and the rest of the list is parsed as if
\* the token were not there.
C9_UnrecognizedIgnored ==
    /\ []((AtOption /\ Unrecognized(argv[index])) =>
              ParseLoop(argv, index, fields)
                  = ParseLoop(RemoveAt(argv, index), index, fields))
    /\ [][(AtOption /\ Unrecognized(argv[index])) =>
              /\ pc' = "loop"
              /\ exc' = NoExc
              /\ fields' = fields
              /\ assigned' = assigned
              /\ index' = index + 1]_vars

\* --bogus passed over, the option after it parsed.
C9_Witness ==
    /\ pc = "build"
    /\ argv = <<<<"-", "-", "b", "o", "g", "u", "s">>, LongEq(opt_dbname, <<"b">>)>>
    /\ fields["database"] = <<"b">>
    /\ exc = NoExc

-----------------------------------------------------------------------------
(* C10 *)

Echoed == \E i \in 1..Len(stdout) : stdout[i] = Line("Conn string: ", "", connstr)

\* The debug step is behind: the connect call is next or has been made.
PastDebug == pc = "connect" \/ calls # <<>>

\* C10, as claimed: the connection string is echoed to stdout before the
\* connect call when PGDEBUG is set to the literal value 1, and not when it
\* is unset or set to any other value.
C10_EchoIffLiteral1 ==
    /\ PastDebug => (Echoed <=> PGDEBUG = EnvValue(<<"1">>))
    /\ ~PastDebug => ~Echoed

\* C10, amended: the connection string is echoed to stdout before the connect
\* call when PGDEBUG is set to a value whose first character is 1 (the
\* literal value 1 among them), and not when it is unset, empty or set to a
\* value that begins with another character.
C10_EchoIffFirstChar1 ==
    /\ PastDebug =>
           (Echoed <=> (PGDEBUG.set /\ PGDEBUG.value # <<>>
                            /\ Head(PGDEBUG.value) = "1"))
    /\ ~PastDebug => ~Echoed

\* PGDEBUG=1: the string is on stdout and no library call has been made.
C10_Witness ==
    /\ pc = "connect"
    /\ PGDEBUG = EnvValue(<<"1">>)
    /\ connstr # <<>>
    /\ stdout = <<Line("Conn string: ", "", connstr)>>
    /\ calls = <<>>

====
